---- MODULE Spec2Model ----
(***************************************************************************)
(* Model of logger.py: the Log singleton (get_logger), its configuration   *)
(* resolution, and the write_log decorator that every severity method      *)
(* (debug, info, warn, error, critical) runs through.                      *)
(*                                                                         *)
(* Conventions.  An optional Python value (None or v) is the set {} or     *)
(* {v}.  The log directory is a real directory (Log.__init__ creates it    *)
(* with os.mkdir), files inside it are keyed by the calendar day their     *)
(* name embeds.  The calendar date only moves forward.  The timestamp and  *)
(* the caller label of a rendered line are opaque text and are left out of *)
(* the line; the severity tag and the message are kept.  The console echo  *)
(* of line 204 (os.system) touches no file and raises nothing, so it has   *)
(* no part in the state.  A log call is explored with a string message, a  *)
(* string message plus an exception, or an exception alone.                *)
(***************************************************************************)
EXTENDS Integers, Sequences, FiniteSets, TLC

VARIABLES
    settings,     \* log_settings.yml: {} when the file is missing, else {dict}
    instance,     \* Log._instance: {} (None) or {the Log object}
    nextId,       \* identity given to the next constructed Log object
    dir_exists,   \* the configured directory exists on disk
    gets,         \* number of get_logger calls made so far
    returned,     \* what the last get_logger call returned ({} if it raised)
    source,       \* the settings dict read by __get_settings__ ({} if never read)
    settingsReads,\* number of times __get_settings__ has run
    staleGet,     \* the last get_logger call found the file changed since it was read
    date,         \* current calendar day (datetime.now() date part)
    files,        \* files[d]: the file '<d>_<file_name>.log' of the directory
    splitted,     \* the path '<directory>/<file_name>-1'
    last          \* record of the last log call (observation only)

vars == <<settings, instance, nextId, dir_exists, gets, returned, source,
          settingsReads, staleGet, date, files, splitted, last>>

registryVars == <<settings, instance, nextId, dir_exists, gets, returned,
                  source, settingsReads, staleGet>>
writerVars == <<date, files, splitted, last>>

(***************************************************************************)
(* Bounds of the model.                                                    *)
(***************************************************************************)
MaxDay == 2        \* calendar days 1..MaxDay
MaxFrames == 2     \* longest traceback of an input exception
MaxGets == 3       \* get_logger calls explored
LineBytes == 524288 \* bytes of one rendered line (half a megabyte)

Days == 1..MaxDay

(***************************************************************************)
(* Class constants, logger.py lines 10-14.                                 *)
(***************************************************************************)
DEBUG == 1
INFO == 2
WARN == 3
ERROR == 4
CRITICAL == 5

BytesPerMB == 1024 * 1024

Opt(S) == {{}} \cup {{x} : x \in S}
Val(o) == CHOOSE x \in o : TRUE
\* Python's  `x if x is not None else d`
OrDefault(o, d) == IF o # {} THEN Val(o) ELSE d

(***************************************************************************)
(* Settings source and singleton accessor.                                 *)
(***************************************************************************)
LevelNames == {"DEBUG", "INFO", "WARN", "ERROR", "CRITICAL", "debug", "TRACE"}

SettingsDicts ==
    [directory : {"logs"},
     file_name : {"app"},
     opening_method : Opt({"w+"}),
     encoding_method : Opt({"latin-1"}),
     log_level : Opt(LevelNames),
     size_limit : Opt({1})]

\* Log.__get_logger_level: the name's level, or None
get_logger_level_wrong_order(logger_level) ==
    IF logger_level \in Opt({"DEBUG", "INFO", "WARN", "ERROR", "CRITICAL"}) \ {{}}
    THEN IF logger_level = {"DEBUG"} THEN {DEBUG}
         ELSE IF logger_level = {"INFO"} THEN {INFO}
         ELSE IF logger_level = {"WARN"} THEN {ERROR}
         ELSE IF logger_level = {"ERROR"} THEN {WARN}
         ELSE {CRITICAL}
    ELSE {}

get_logger_level(logger_level) ==
    IF logger_level \in Opt({"DEBUG", "INFO", "WARN", "ERROR", "CRITICAL"}) \ {{}}
    THEN IF logger_level = {"DEBUG"} THEN {DEBUG}
         ELSE IF logger_level = {"INFO"} THEN {INFO}
         ELSE IF logger_level = {"WARN"} THEN {WARN}
         ELSE IF logger_level = {"ERROR"} THEN {ERROR}
         ELSE {CRITICAL}
    ELSE {}

\* Log.__init__ as called from get_logger (lines 295-301): the object built
\* from a settings dict s, with identity id.
NewLog(s, id) ==
    [id |-> id,
     directory |-> s.directory,
     file_name |-> s.file_name,
     opening_method |-> OrDefault(s.opening_method, "a+"),
     encoding_method |-> OrDefault(s.encoding_method, "utf-8"),
     level |-> OrDefault(get_logger_level(s.log_level), 1),
     size_limit |-> OrDefault(s.size_limit, 512)]

\* Log.get_logger, one call.
get_logger_rereads ==
    /\ gets < MaxGets
    /\ gets' = gets + 1
    /\ staleGet' = (instance # {} /\ settings # source)
    /\ IF settings = {}
       THEN /\ returned' = {}
            /\ UNCHANGED <<instance, nextId, dir_exists, source, settingsReads>>
       ELSE /\ instance' = {NewLog(Val(settings), nextId)}
            /\ nextId' = nextId + 1
            /\ dir_exists' = TRUE
            /\ source' = settings
            /\ settingsReads' = settingsReads + 1
            /\ returned' = instance'
    /\ UNCHANGED <<settings, date, files, splitted, last>>

get_logger ==
    /\ gets < MaxGets
    /\ gets' = gets + 1
    /\ staleGet' = (instance # {} /\ settings # source)
    /\ IF instance = {}
       THEN IF settings = {}
            THEN \* open('./log_settings.yml') raises; nothing is constructed
                 /\ returned' = {}
                 /\ UNCHANGED <<instance, nextId, dir_exists, source, settingsReads>>
            ELSE /\ instance' = {NewLog(Val(settings), nextId)}
                 /\ nextId' = nextId + 1
                 /\ dir_exists' = TRUE
                 /\ source' = settings
                 /\ settingsReads' = settingsReads + 1
                 /\ returned' = instance'
       ELSE /\ returned' = instance
            /\ UNCHANGED <<instance, nextId, dir_exists, source, settingsReads>>
    /\ UNCHANGED <<settings, date, files, splitted, last>>

\* The environment rewrites (or removes) log_settings.yml.
ChangeSettings ==
    /\ \E s \in Opt(SettingsDicts) : s # settings /\ settings' = s
    /\ UNCHANGED <<instance, nextId, dir_exists, gets, returned, source,
                   settingsReads, staleGet, date, files, splitted, last>>


(***************************************************************************)
(* Inputs of a log call.  A value passed to a severity method is None, a   *)
(* string, or an exception with its string form and the number of frames   *)
(* traceback extraction finds for it (0 for an exception never raised).    *)
(***************************************************************************)
NoValue == [kind |-> "none", str |-> "", nframes |-> 0]
StrValue(s) == [kind |-> "str", str |-> s, nframes |-> 0]
ExcValue(s, n) == [kind |-> "exc", str |-> s, nframes |-> n]

Methods == {"debug", "info", "warn", "error", "critical"}

\* isinstance(v, Exception)
IsException(v) == v.kind = "exc"

(***************************************************************************)
(* File system of the log directory.                                       *)
(***************************************************************************)
NoFile == [exists |-> FALSE, lines |-> <<>>]

\* Log.file_name / Log.file_directory at a moment when the clock reads day d:
\* the path embeds d, so the file is files[d].
file_directory_cached(d) == 1

file_directory(d) == d

\* Log.file_size, in bytes (the code divides by 1024 * 1024 and compares the
\* quotient with size_limit; the comparison below multiplies instead).
file_size(fs, d) ==
    IF fs[file_directory(d)].exists
    THEN Len(fs[file_directory(d)].lines) * LineBytes
    ELSE 0

\* open(path, opening_method) ; file.write(line) ; close
open_and_write_truncating(f, opening_method, line) ==
    [exists |-> TRUE, lines |-> <<line>>]

open_and_write(f, opening_method, line) ==
    IF opening_method = "a+"
    THEN [exists |-> TRUE, lines |-> Append(f.lines, line)]
    ELSE [exists |-> TRUE, lines |-> <<line>>]

(***************************************************************************)
(* Log.__split_file: os.rename(self.directory, directory/<file_name>-1).   *)
(* The source is the directory itself and the target lies inside it, so    *)
(* the rename raises OSError and changes nothing on disk.                  *)
(***************************************************************************)
split_file(fs, sp, d) ==
    [raised |-> TRUE, files |-> fs, splitted |-> sp]

\* Log.__split_file_if_necessary: the condition of line 183
size_over_limit_strict(size, size_limit) == size > size_limit * BytesPerMB

size_over_limit(size, size_limit) == size >= size_limit * BytesPerMB

(***************************************************************************)
(* Log.__assemble_exception_message and Log.__get_messages.                *)
(***************************************************************************)
Message(prefixed, prefix, motive, frame, text) ==
    [prefixed |-> prefixed, prefix |-> prefix, motive |-> motive,
     frame |-> frame, text |-> text]

\* one message per frame of the traceback, outermost frame (1) first
assemble_exception_message(message, exception_occurrence) ==
    LET tb == IF exception_occurrence.kind = "none" THEN message
              ELSE exception_occurrence
    IN [i \in 1..tb.nframes |->
           Message(exception_occurrence.kind # "none",
                   IF exception_occurrence.kind = "none" THEN "" ELSE message.str,
                   tb.str, i, "")]

get_messages(message_to_log, exception_occurrence) ==
    IF IsException(message_to_log)
       \/ (exception_occurrence.kind # "none" /\ IsException(exception_occurrence))
    THEN assemble_exception_message(message_to_log, exception_occurrence)
    ELSE <<Message(FALSE, "", "", 0, message_to_log.str)>>

(***************************************************************************)
(* The decorated methods: the rendered line and the level of the method.   *)
(***************************************************************************)
MethodLevel(method) ==
    CASE method = "debug" -> DEBUG
      [] method = "info" -> INFO
      [] method = "warn" -> WARN
      [] method = "error" -> ERROR
      [] method = "critical" -> CRITICAL

MethodTag(method) ==
    CASE method = "debug" -> "[DEBUG]"
      [] method = "info" -> "[INFO]"
      [] method = "warn" -> "[WARN]"
      [] method = "error" -> "[ERROR]"
      [] method = "critical" -> "[CRITICAL]"

log_message_mounter(method, message) ==
    <<[tag |-> MethodTag(method), message |-> message], MethodLevel(method)>>

\* the condition of line 201
level_allows_inverted(level, log_level_message) == level >= log_level_message

level_allows(level, log_level_message) == level <= log_level_message

(***************************************************************************)
(* Log.__write_messages_in_file.  reads[i] is the day the clock shows when *)
(* the file of the i-th message is opened (file_directory is evaluated at  *)
(* each open).  ws collects one entry per write performed.                 *)
(***************************************************************************)
RECURSIVE write_messages_in_file(_, _, _, _, _, _, _)
write_messages_in_file(self, method, messages, i, reads, fs, ws) ==
    IF i > Len(messages)
    THEN [files |-> fs, writes |-> ws]
    ELSE LET mounted == log_message_mounter(method, messages[i])
             d == file_directory(reads[i])
         IN IF level_allows(self.level, mounted[2])
            THEN write_messages_in_file(self, method, messages, i + 1, reads,
                     [fs EXCEPT ![d] = open_and_write(fs[d], self.opening_method, mounted[1])],
                     Append(ws, [index |-> i, day |-> reads[i], path |-> d,
                                 line |-> mounted[1],
                                 sizeBefore |-> file_size(fs, reads[i])]))
            ELSE write_messages_in_file(self, method, messages, i + 1, reads, fs, ws)


(***************************************************************************)
(* write_log.writer (lines 177-179): the result of one log call made when  *)
(* the disk holds fs and sp.  reads[0] is the day the clock shows at the   *)
(* size check, reads[i] the day it shows while message i is handled.       *)
(***************************************************************************)
Observation(method, message, exc, issued, reads, size, rotation, outcome, records, writes) ==
    [called |-> TRUE, method |-> method, message |-> message, exception |-> exc,
     issued |-> issued, checkDay |-> reads[0], sizeAtCheck |-> size,
     rotation |-> rotation, outcome |-> outcome, records |-> records,
     writes |-> writes]

\* the rest of the call once the size check is behind it (lines 178-179)
derive_and_write(self, fs, sp, issued, method, message, exc, reads, size, rotation) ==
    LET messages == get_messages(message, exc)
        w == write_messages_in_file(self, method, messages, 1, reads, fs, <<>>)
    IN [files |-> w.files, splitted |-> sp, now |-> reads[Len(messages)],
        obs |-> Observation(method, message, exc, issued, reads, size, rotation,
                            "returned", messages, w.writes)]

writer_swallows_rename_error(self, fs, sp, issued, method, message, exc, reads) ==
    LET size == file_size(fs, reads[0])
    IN IF size_over_limit(size, self.size_limit)
       THEN derive_and_write(self, fs, sp, issued, method, message, exc, reads,
                             size, "failed")
       ELSE derive_and_write(self, fs, sp, issued, method, message, exc, reads,
                             size, "none")

writer(self, fs, sp, issued, method, message, exc, reads) ==
    LET size == file_size(fs, reads[0])
    IN IF size_over_limit(size, self.size_limit)
       THEN LET s == split_file(fs, sp, file_directory(reads[0]))
            IN IF s.raised
               THEN \* OSError leaves writer at line 177
                    [files |-> s.files, splitted |-> s.splitted, now |-> reads[0],
                     obs |-> Observation(method, message, exc, issued, reads, size,
                                         "failed", "raised", <<>>, <<>>)]
               ELSE derive_and_write(self, s.files, s.splitted, issued, method,
                                     message, exc, reads, size, "done")
       ELSE derive_and_write(self, fs, sp, issued, method, message, exc, reads,
                             size, "none")

\* the days a call can see, in the order it reads the clock
ClockReads(today) ==
    {r \in [0..MaxFrames -> today..MaxDay] :
        \A i \in 0..MaxFrames, j \in 0..MaxFrames : i <= j => r[i] <= r[j]}

OneDay(today) == [i \in 0..MaxFrames |-> today]

\* A severity method is called on the singleton.
LogCall(method, message, exc, reads) ==
    /\ instance # {}
    /\ LET r == writer(Val(instance), files, splitted, date, method, message, exc, reads)
       IN /\ files' = r.files
          /\ splitted' = r.splitted
          /\ date' = r.now
          /\ last' = r.obs
    /\ UNCHANGED registryVars

\* Midnight passes between two calls.
Tick ==
    /\ date < MaxDay
    /\ date' = date + 1
    /\ UNCHANGED <<files, splitted, last>>
    /\ UNCHANGED registryVars

(***************************************************************************)
(* Specifications.                                                         *)
(***************************************************************************)
NoCall ==
    [called |-> FALSE, method |-> "debug", message |-> NoValue, exception |-> NoValue,
     issued |-> 1, checkDay |-> 1, sizeAtCheck |-> 0, rotation |-> "none",
     outcome |-> "returned", records |-> <<>>, writes |-> <<>>]

InitDisk ==
    /\ date = 1
    /\ files = [d \in Days |-> NoFile]
    /\ splitted = NoFile
    /\ last = NoCall

\* The process has started; get_logger has not been called.
InitRegistry ==
    /\ settings \in Opt(SettingsDicts)
    /\ instance = {}
    /\ nextId = 1
    /\ dir_exists \in BOOLEAN
    /\ gets = 0
    /\ returned = {}
    /\ source = {}
    /\ settingsReads = 0
    /\ staleGet = FALSE
    /\ InitDisk

NextRegistry == get_logger \/ ChangeSettings

SpecRegistry == InitRegistry /\ [][NextRegistry]_vars

\* The settings the writer is explored under.
WriterSettings ==
    [directory : {"logs"},
     file_name : {"app"},
     opening_method : {{"a+"}, {"w+"}},
     encoding_method : {{}},
     log_level : {{"DEBUG"}, {"INFO"}, {"WARN"}, {"ERROR"}, {"CRITICAL"}},
     size_limit : {{1}}]

\* The first get_logger call has constructed the singleton.
InitWriter ==
    /\ settings \in {{s} : s \in WriterSettings}
    /\ instance = {NewLog(Val(settings), 1)}
    /\ nextId = 2
    /\ dir_exists = TRUE
    /\ gets = 1
    /\ returned = instance
    /\ source = settings
    /\ settingsReads = 1
    /\ staleGet = FALSE
    /\ InitDisk

\* Plain messages, with the clock free to pass midnight at any moment.
LogPlain ==
    \E method \in Methods, reads \in ClockReads(date) :
        LogCall(method, StrValue("m"), NoValue, reads)

Next == LogPlain \/ Tick

Spec == InitWriter /\ [][Next]_vars

\* Messages and exceptions on a single calendar day.
Exceptions == {ExcValue("boom", n) : n \in 0..MaxFrames}

LogMessage ==
    \E method \in Methods : LogCall(method, StrValue("m"), NoValue, OneDay(date))

LogMessageAndException ==
    \E method \in Methods, e \in Exceptions :
        LogCall(method, StrValue("m"), e, OneDay(date))

LogException ==
    \E method \in Methods, e \in Exceptions :
        LogCall(method, e, NoValue, OneDay(date))

NextExc == LogMessage \/ LogMessageAndException \/ LogException

SpecExc == InitWriter /\ [][NextExc]_vars

(***************************************************************************)
(* Properties.                                                             *)
(***************************************************************************)
Self == Val(instance)
LimitBytes == Self.size_limit * BytesPerMB
Severity(l) == MethodLevel(l.method)
\* the exception whose traceback a call formats, if it carries one
Carried(l) == IF l.exception.kind = "none" THEN l.message ELSE l.exception
Written(l, i) == \E k \in 1..Len(l.writes) : l.writes[k].index = i
InFile(w) ==
    /\ files[w.path].exists
    /\ \E n \in 1..Len(files[w.path].lines) : files[w.path].lines[n] = w.line

\* C1: every record a log call derives is written to the log file if and
\* only if the severity of the call is at or above the configured minimum; a
\* call below the minimum writes nothing.
C1_WrittenIffAtOrAboveMinimum ==
    last.called =>
        /\ \A i \in 1..Len(last.records) :
              Written(last, i) <=> Severity(last) >= Self.level
        /\ \A k \in 1..Len(last.writes) :
              /\ last.writes[k].line.message = last.records[last.writes[k].index]
              /\ Self.opening_method = "a+" => InFile(last.writes[k])
        /\ Severity(last) < Self.level => last.writes = <<>>

C1_Witness ==
    /\ last.called
    /\ Self.level = WARN
    /\ last.method = "warn"
    /\ Len(last.records) = 2
    /\ Len(last.writes) = 2
    /\ InFile(last.writes[2])

\* C2: a log call that finds the active file at or above the size limit
\* leaves the previous file under the "-1" name and its own record in a new
\* active file.
C2_RotationKeepsRecord ==
    (last.called /\ last.sizeAtCheck >= LimitBytes) =>
        /\ splitted.exists
        /\ splitted.lines # <<>>
        /\ last.outcome = "returned"
        /\ Severity(last) >= Self.level =>
              /\ files[last.checkDay].exists
              /\ files[last.checkDay].lines =
                    <<[tag |-> MethodTag(last.method),
                       message |-> Message(FALSE, "", "", 0, last.message.str)]>>

\* C3: once an instance exists, get_logger returns that same instance with
\* its configuration unchanged and never reads the settings source again,
\* whatever the settings source holds by then.
C3_SameInstance ==
    [][instance # {} =>
          /\ instance' = instance
          /\ source' = source
          /\ settingsReads' = settingsReads
          /\ gets' # gets => returned' = instance]_vars

C3_Witness ==
    /\ instance # {}
    /\ gets >= 2
    /\ staleGet
    /\ settings # {}
    /\ returned = instance
    /\ settingsReads = 1
    /\ Val(instance).opening_method # OrDefault(Val(settings).opening_method, "a+")

\* C4: a call carrying an error with N >= 1 frames derives N records, in
\* frame order, all with the error's string form as Motive; at or above the
\* minimum severity N lines are written, tagged with the call's severity and
\* prefixed exactly when a message came with the error.
C4_OneRecordPerFrame ==
    (last.called /\ Carried(last).kind = "exc" /\ Carried(last).nframes >= 1) =>
        /\ Len(last.records) = Carried(last).nframes
        /\ \A i \in 1..Len(last.records) :
              /\ last.records[i].frame = i
              /\ last.records[i].motive = Carried(last).str
        /\ Severity(last) >= Self.level =>
              /\ Len(last.writes) = Carried(last).nframes
              /\ \A k \in 1..Len(last.writes) :
                    /\ last.writes[k].line.tag = MethodTag(last.method)
                    /\ last.writes[k].line.message.prefixed
                          <=> last.exception.kind # "none"

\* (C4 for the calls whose size check found the file below the limit.)
FanOutBelowLimit == last.rotation = "none" => C4_OneRecordPerFrame

\* C5: a call given an error without stack frames returns normally and
\* derives exactly one record, written when the severity is at or above the
\* minimum (stated for the calls whose size check found the file below the
\* limit).
C5_FramelessGivesOneRecord ==
    (last.called /\ Carried(last).kind = "exc" /\ Carried(last).nframes = 0
       /\ last.rotation = "none") =>
        /\ last.outcome = "returned"
        /\ Len(last.records) = 1
        /\ Severity(last) >= Self.level => Len(last.writes) = 1

\* C6: a log call whose rotation rename fails raises to its caller, writes
\* nothing, and leaves every file as it was.
C6_FailedRenameRaises ==
    [][(last' # last /\ last'.rotation = "failed") =>
          /\ last'.outcome = "raised"
          /\ last'.writes = <<>>
          /\ files' = files
          /\ splitted' = splitted]_vars

C6_Witness ==
    /\ last.called
    /\ last.rotation = "failed"
    /\ last.outcome = "raised"
    /\ Severity(last) >= Self.level
    /\ Len(files[last.checkDay].lines) >= 2

\* C7 as stated: every record a call writes goes to the file named for the
\* day on which the call was issued.
C7_FileOfIssueDay ==
    \A k \in 1..Len(last.writes) : last.writes[k].path = last.issued

\* C7 as amended: every record goes to the file named for the day the clock
\* shows when that record is written, a day from the call's issue day to its
\* completion day; a file of a day already past is never written again, and
\* nothing is renamed.
C7_FileOfWriteDay ==
    [][/\ last' # last =>
             \A k \in 1..Len(last'.writes) :
                /\ last'.writes[k].path = last'.writes[k].day
                /\ date <= last'.writes[k].day
                /\ last'.writes[k].day <= date'
       /\ \A d \in Days : files'[d] # files[d] =>
             /\ d >= date
             /\ \E k \in 1..Len(last'.writes) : last'.writes[k].day = d
       /\ splitted' = splitted]_vars

C7_Witness ==
    /\ last.called
    /\ last.issued = 1
    /\ last.writes # <<>>
    /\ last.writes[1].day = 2
    /\ files[1].lines # <<>>
    /\ files[2].lines # <<>>

\* C9 as stated: no record is written to a file whose size is already at or
\* above the limit.
C9_EveryWriteBelowLimit ==
    \A k \in 1..Len(last.writes) : last.writes[k].sizeBefore < LimitBytes

\* C9 as amended: the size is checked once per log call, before its first
\* record: the first record a call writes goes to a file below the limit.
C9_FirstWriteBelowLimit ==
    (last.called /\ last.writes # <<>>) =>
        /\ last.sizeAtCheck < LimitBytes
        /\ last.writes[1].sizeBefore < LimitBytes

C9_Witness ==
    /\ last.called
    /\ Len(last.writes) = 2
    /\ last.writes[1].sizeBefore < LimitBytes
    /\ last.writes[2].sizeBefore >= LimitBytes

\* the lines a call is expected to add, from its inputs
ExpectedRecords(l) ==
    IF Carried(l).kind = "exc"
    THEN [i \in 1..Carried(l).nframes |->
             Message(l.exception.kind # "none",
                     IF l.exception.kind = "none" THEN "" ELSE l.message.str,
                     Carried(l).str, i, "")]
    ELSE <<Message(FALSE, "", "", 0, l.message.str)>>

ExpectedLines(l) ==
    IF Severity(l) >= Self.level
    THEN [i \in 1..Len(ExpectedRecords(l)) |->
             [tag |-> MethodTag(l.method), message |-> ExpectedRecords(l)[i]]]
    ELSE <<>>

\* C10: in mode 'a+', on one day and with no rotation triggered, each log
\* call extends the active file by exactly the lines of its records at or
\* above the minimum, in frame order, and changes nothing else, so the
\* file is the concatenation of those lines in call order.
C10_AppendOnly ==
    [][(/\ Self.opening_method = "a+"
        /\ date' = date
        /\ last'.called
        /\ last'.rotation = "none"
        /\ (last' # last \/ files' # files)) =>
          /\ files'[date].lines = files[date].lines \o ExpectedLines(last')
          /\ \A d \in Days \ {date} : files'[d] = files[d]]_vars

C10_Witness ==
    /\ Self.opening_method = "a+"
    /\ last.called
    /\ last.rotation = "none"
    /\ Len(last.writes) = 2
    /\ Len(files[date].lines) = 3

\* C8: a missing settings entry takes its default ('a+', 'utf-8', DEBUG,
\* 512); a level name outside the five recognised ones also gives DEBUG;
\* each recognised name gives its level, 1 to 5 in order.
C8_Defaults ==
    instance # {} =>
        LET s == Val(source)
            o == Val(instance)
        IN /\ o.opening_method = IF s.opening_method = {} THEN "a+" ELSE Val(s.opening_method)
           /\ o.encoding_method = IF s.encoding_method = {} THEN "utf-8" ELSE Val(s.encoding_method)
           /\ o.size_limit = IF s.size_limit = {} THEN 512 ELSE Val(s.size_limit)
           /\ s.log_level = {"DEBUG"} => o.level = 1
           /\ s.log_level = {"INFO"} => o.level = 2
           /\ s.log_level = {"WARN"} => o.level = 3
           /\ s.log_level = {"ERROR"} => o.level = 4
           /\ s.log_level = {"CRITICAL"} => o.level = 5
           /\ s.log_level \notin {{"DEBUG"}, {"INFO"}, {"WARN"}, {"ERROR"}, {"CRITICAL"}}
                 => o.level = 1

C8_Witness ==
    /\ instance # {}
    /\ Val(source).log_level = {"debug"}
    /\ Val(source).opening_method = {}
    /\ Val(source).encoding_method = {}
    /\ Val(source).size_limit = {}
    /\ Val(instance).level = 1
    /\ Val(instance).size_limit = 512

====
